---- MODULE Spec2Model ----
(***************************************************************************)
(* obsidian-pandoc: the export pipeline.                                   *)
(*                                                                         *)
(*   main.ts      onload / createBinaryMap / currentFileCanBeExported /    *)
(*                startPandocExport                                        *)
(*   renderer.ts  render / postProcessRenderedHTML / convertSVGToPNG /     *)
(*                getYAMLMetadata / standaloneHTML                         *)
(*   pandoc.ts    pandoc (spawn, stream handlers, output stat)             *)
(*                                                                         *)
(* Strings are sequences of tokens, so that concatenation is \o and the    *)
(* empty string is << >>.  A path is a sequence of segments, each segment  *)
(* a string.                                                               *)
(***************************************************************************)
EXTENDS Integers, Sequences, FiniteSets, TLC

(***************************************************************************)
(* Bounds of the model.                                                    *)
(***************************************************************************)
\* elements (embeds, diagrams) in one document
MaxElems == 2
\* export commands / direct converter calls issued over a run
MaxExports == 2
\* commands that may be in flight at the same time
MaxInFlight == 1
\* chunks the converter writes to one of its output streams
MaxChunks == 1
\* exports that overlap in time where the overlap itself is looked at
MaxOverlap == 2

(***************************************************************************)
(* Strings and paths (node's path module on normalised absolute paths).    *)
(***************************************************************************)
EmptyStr == << >>

MdExt == <<".md">>

\* the notes of the vault
Docs == {"A", "B"}

\* the note open in the active leaf (the notes are interchangeable)
ActiveDocs == {"A"}

\* a reference that resolves to no file of the vault
NoSuchNote == "Z"

VaultBasePath == << <<"vault">> >>

dirname(p) == SubSeq(p, 1, Len(p) - 1)

basename(p) == p[Len(p)]

join(dir, name) == Append(dir, name)

\* main.ts getCurrentFile: path.join(vaultBasePath, fileData.path)
getCurrentFile(d) == join(VaultBasePath, <<d>> \o MdExt)

\* path.basename(file, path.extname(file))
fileBaseName(file) ==
    LET b == basename(file)
    IN  IF Len(b) > 1 /\ b[Len(b)] = MdExt[1] THEN SubSeq(b, 1, Len(b) - 1) ELSE b

\* fs.promises.readFile succeeds on the notes that exist
Readable(file) == \E d \in Docs : file = getCurrentFile(d)

\* global.ts replaceFileExtension(inputFile, extension)
replaceFileExtension(file, ext) ==
    LET b == basename(file)
        stem == IF Len(b) > 1 THEN SubSeq(b, 1, Len(b) - 1) ELSE b
    IN  join(dirname(file), stem \o <<".", ext>>)

(***************************************************************************)
(* References as the DOM and node's path module see them.  A reference is  *)
(* a string of tokens in which "/" separates segments, "." starts an       *)
(* extension and "#" a heading.                                            *)
(***************************************************************************)
\* const prefix = 'app://obsidian.md/'
prefix == <<"app://obsidian.md", "/">>

\* references that carry a scheme of their own
Schemes == {"https:", "data:"}

startsWith(str, pre) == Len(str) >= Len(pre) /\ SubSeq(str, 1, Len(pre)) = pre

substring(str, n) == SubSeq(str, n + 1, Len(str))

\* base.indexOf('#'): 0 stands for -1
indexOf(str, tok) ==
    LET S == {i \in 1..Len(str) : str[i] = tok}
    IN  IF S = {} THEN 0 ELSE CHOOSE i \in S : \A j \in S : i <= j

\* the href and src properties of an element: the attribute resolved against
\* the address of the app's page, app://obsidian.md/index.html
resolve(attr) ==
    IF attr[1] \in Schemes THEN attr
    ELSE IF attr[1] = "/" THEN <<prefix[1]>> \o attr
    ELSE prefix \o attr

RECURSIVE segments(_)
\* the segments of a relative reference
segments(str) ==
    LET i == indexOf(str, "/")
    IN  IF str = << >> THEN << >>
        ELSE IF i = 0 THEN <<str>>
        ELSE IF i = 1 THEN segments(Tail(str))
        ELSE <<SubSeq(str, 1, i - 1)>> \o segments(substring(str, i))

\* path.join(dir, rel) for a relative reference of one or more segments
joinAll(dir, rel) == dir \o segments(rel)

RECURSIVE pathString(_)
\* an absolute path written out as a string
pathString(p) ==
    IF p = << >> THEN << >> ELSE <<"/">> \o Head(p) \o pathString(Tail(p))

\* path.extname(p): from the last '.' of the base name, '' when there is none
\* or when it is the first character
extname(p) ==
    LET b == basename(p)
        S == {i \in 2..Len(b) : b[i] \in {".", ".md"}}
    IN  IF S = {} THEN EmptyStr
        ELSE SubSeq(b, CHOOSE i \in S : \A j \in S : i >= j, Len(b))

(***************************************************************************)
(* Rendered fragments.  An element is [t, src, text]:                      *)
(*   embed    <span class="internal-embed" src=...>                        *)
(*   svg      a diagram; text is the text of its <style>, which the host   *)
(*            renderer starts with the rules of the diagram                *)
(*   a        an anchor, src is its href attribute, text what it shows     *)
(*   img      an image, src is its src attribute                           *)
(*   text     plain text                                                   *)
(*   doctype  the head that standaloneHTML puts before a fragment          *)
(***************************************************************************)
Embed(ref) == [t |-> "embed", src |-> ref, text |-> EmptyStr]

Svg == [t |-> "svg", src |-> EmptyStr, text |-> <<"diagram">>]

Anchor(href, text) == [t |-> "a", src |-> href, text |-> text]

Img(src) == [t |-> "img", src |-> src, text |-> EmptyStr]

PlainText(text) == [t |-> "text", src |-> EmptyStr, text |-> text]

Doctype(title) == [t |-> "doctype", src |-> EmptyStr, text |-> title]

Png == Img(<<"data:", "image/png">>)

\* MathJax output, which carries the marker jax="CHTML"
MathJax == [t |-> "math", src |-> EmptyStr, text |-> <<"jax=CHTML">>]

Refs == {<<d>> : d \in Docs \cup {NoSuchNote}}

Elems == {Embed(r) : r \in Refs} \cup {Svg}

\* [[Other]], [[Other#sec]], [[Other.md]], [[Other#v1.2]] and a link to the web
LinkRefs ==
    {<<"Other">>, <<"Other", "#", "sec">>, <<"Other", ".md">>,
     <<"Other", "#", "v1", ".", "2">>, <<"https:", "//example.com">>}

\* an image of the vault and one of the web
ImageRefs == {<<"pic", ".", "png">>, <<"https:", "//example.com/pic.png">>}

\* what the host renderer can make of a note: embeds, diagrams, links, images
RichElems ==
    Elems \cup {Anchor(r, <<"label">>) : r \in LinkRefs} \cup {Img(r) : r \in ImageRefs}

RichContents == UNION {[1..n -> RichElems] : n \in 0..MaxElems}

Contents == UNION {[1..n -> Elems] : n \in 0..MaxElems}

\* the header block of a note, as getYAMLMetadata sees it: none, one with a
\* title, one without, an empty one, one that is not closed, and one that is
\* not YAML
AllHeaders == {"none", "title", "notitle", "empty", "unclosed", "malformed"}

\* the headers of the notes whose text is first looked at during an export
Headers == {"none", "malformed"}

\* the start of the note's text, the marker '---' being one token and each
\* line of the header one token
HeaderText(header) ==
    CASE header = "title"     -> <<"---", "title: My title", "---", "text">>
      [] header = "notitle"   -> <<"---", "author: Me", "---", "text">>
      [] header = "empty"     -> <<"---", "---", "text">>
      [] header = "unclosed"  -> <<"---", "author: Me", "text">>
      [] header = "malformed" -> <<"---", "{", "---", "text">>
      [] OTHER                -> <<"text">>

RECURSIVE Flatten(_)
Flatten(cells) ==
    IF cells = << >> THEN << >> ELSE Head(cells) \o Flatten(Tail(cells))

\* first position >= i of an element of kind t, Len + 1 when there is none
NextOf(seq, t, i) ==
    LET S == {j \in i..Len(seq) : seq[j].t = t}
    IN  IF S = {} THEN Len(seq) + 1 ELSE CHOOSE j \in S : \A k \in S : j <= k

(***************************************************************************)
(* State.                                                                  *)
(***************************************************************************)
VARIABLES
    plugin,     \* "unloaded" until onload has run, then "ready"
    settings,   \* PandocPluginSettings (the fields read here)
    features,   \* PandocPlugin.features, filled by createBinaryMap
    env,        \* the machine: which binaries exist ("unknown" until looked at)
    fs,         \* destination files: "absent", "empty" (zero bytes) or "file"
    mounted,    \* hidden wrapper <div>s attached to document.body
    nStarted,   \* commands issued so far
    tasks,      \* the asynchronous task chain of each command in flight
    calls       \* the pandoc() invocation of each task

vars == <<plugin, settings, features, env, fs, mounted, nStarted, tasks, calls>>

Slots == 1..MaxInFlight

\* the task chains there is room for
AllSlots == 1..(IF MaxOverlap > MaxInFlight THEN MaxOverlap ELSE MaxInFlight)

\* pandoc.ts outputFormats: [pretty name, pandoc format, extension, short name]
Formats == {"html", "docx"}

Extension(format) == format

needsPandoc(format) == format # "html"

\* main.ts startPandocExport: outputFile (no outputFolder configured)
OutputFile(inputFile, format) == replaceFileExtension(inputFile, Extension(format))

Dests == {OutputFile(getCurrentFile(d), f) : d \in Docs, f \in Formats}

Unread == [read |-> FALSE, elems |-> << >>, header |-> "unread"]

NoHtml == [standalone |-> FALSE, title |-> EmptyStr, css |-> EmptyStr, body |-> << >>]

\* global.ts DEFAULT_SETTINGS (the fields read here; null is the empty string)
DEFAULT_SETTINGS ==
    [pandoc |-> EmptyStr, linkStrippingBehaviour |-> "text",
     addExtensionsToInternalLinks |-> <<"html">>, injectAppCSS |-> "light",
     injectThemeCSS |-> FALSE, customCSSFile |-> EmptyStr, pdflatex |-> EmptyStr]

\* process.env.PATH when the plugin is loaded: the directories it lists
HostPATH == << << <<"usr">>, <<"bin">> >> >>

\* a machine on which pandoc is on the PATH and neither a theme's stylesheet
\* nor a custom stylesheet can be read
NoFiles ==
    [onPath |-> "yes", override |-> "unknown", theme |-> "unreadable",
     customAbsolute |-> "unreadable", customRelative |-> "unreadable",
     PATH |-> HostPATH]

IdleTask ==
    [pc |-> "idle", kind |-> "none", file |-> << >>, format |-> "none",
     stack |-> << >>, seen |-> [d \in Docs |-> Unread], html |-> NoHtml,
     warnings |-> << >>, notice |-> "none", diag |-> EmptyStr]

NoCall ==
    [pc |-> "none", input |-> "none", sink |-> "none", dest |-> << >>,
     proc |-> "none", spawnFailed |-> FALSE, emitted |-> EmptyStr,
     errPipe |-> EmptyStr, outPipe |-> EmptyStr, wrote |-> "none",
     result |-> EmptyStr, error |-> EmptyStr, ended |-> FALSE,
     value |-> [result |-> EmptyStr, error |-> EmptyStr],
     promise |-> "pending", rejection |-> EmptyStr]

Init ==
    /\ plugin = "unloaded"
    /\ settings = DEFAULT_SETTINGS
    /\ features = [pandoc |-> EmptyStr]
    /\ env = [NoFiles EXCEPT !.onPath = "unknown"]
    /\ fs = [p \in Dests |-> "absent"]
    /\ mounted = 0
    /\ nStarted = 0
    /\ tasks = [s \in AllSlots |-> IdleTask]
    /\ calls = [s \in AllSlots |-> NoCall]

(***************************************************************************)
(* main.ts: onload, createBinaryMap, currentFileCanBeExported.             *)
(***************************************************************************)
PandocOnPath == <<"/usr/bin/pandoc">>

PandocOverride == <<"/opt/pandoc">>

\* lookpath('pandoc'): the path found, or undefined (the empty string here)
lookpath(found) == IF found THEN PandocOnPath ELSE EmptyStr

\* this.features['pandoc'] = this.settings.pandoc || await lookpath('pandoc')
createBinaryMap(configured, found) ==
    IF configured # EmptyStr THEN configured ELSE lookpath(found)

\* loadSettings lays the saved data over DEFAULT_SETTINGS (here a saved
\* override of the converter's path); lookpath is only consulted when no
\* override is configured (|| short-circuits)
onload ==
    /\ plugin = "unloaded"
    /\ \E configured \in {EmptyStr, PandocOverride} :
         /\ settings' = [settings EXCEPT !.pandoc = configured]
         /\ IF configured # EmptyStr
              THEN /\ features' = [features EXCEPT !.pandoc = createBinaryMap(configured, FALSE)]
                   /\ UNCHANGED env
              ELSE \E found \in BOOLEAN :
                     /\ features' = [features EXCEPT !.pandoc = createBinaryMap(configured, found)]
                     /\ env' = [env EXCEPT !.onPath = IF found THEN "yes" ELSE "no"]
    /\ plugin' = "ready"
    /\ UNCHANGED <<fs, mounted, nStarted, tasks, calls>>

currentFileCanBeExported(format) ==
    ~(needsPandoc(format) /\ features.pandoc = EmptyStr)

(***************************************************************************)
(* renderer.ts: render and postProcessRenderedHTML, one frame per call of  *)
(* render.  The frames of a task form the chain of recursive calls.        *)
(***************************************************************************)
Frame(file, parentFiles) ==
    [file |-> file, parentFiles |-> parentFiles, pc |-> "start", idx |-> 1,
     css |-> EmptyStr, spans |-> << >>, cells |-> << >>, body |-> << >>]

Top(s) == tasks[s].stack[Len(tasks[s].stack)]

Rendering(s) == tasks[s].pc = "render" /\ tasks[s].stack # << >>

DocOf(file) == CHOOSE d \in Docs : getCurrentFile(d) = file

SetTop(t, f) == [t EXCEPT !.stack = [@ EXCEPT ![Len(@)] = f]]

\* the embed loop runs over the spans found before it starts
AdvanceEmbed(f, cell) ==
    LET cs == IF f.idx <= Len(f.cells) THEN [f.cells EXCEPT ![f.idx] = cell] ELSE f.cells
    IN  [f EXCEPT !.cells = cs,
                  !.idx = NextOf(f.spans, "embed", f.idx + 1)]

\* startPandocExport's catch: new Notice('Pandoc export failed: ' + e.toString())
Failed(t, message) ==
    [IdleTask EXCEPT !.pc = "done", !.kind = t.kind, !.file = t.file,
                     !.format = t.format, !.notice = "failure", !.diag = message]

\* (mutant) no try around the embed: the exception ends the export
UnwindToTop(t, message) == Failed(t, message)

\* An exception leaves the innermost render call.  An embedded call was made
\* inside the try of the embed loop of its parent, which logs and goes on to
\* the next span; the top-level call was made inside startPandocExport's try.
Unwind(t, message) ==
    LET rest == SubSeq(t.stack, 1, Len(t.stack) - 1)
    IN  IF rest = << >>
          THEN Failed(t, message)
          ELSE LET parent == rest[Len(rest)]
               IN  [t EXCEPT !.stack =
                       [rest EXCEPT ![Len(rest)] =
                           AdvanceEmbed(parent, parent.cells[parent.idx])]]

\* (mutant) indexOf(file) > 0: the first ancestor is not looked at
IsAncestorSkipFirst(parentFiles, file) ==
    \E i \in 2..Len(parentFiles) : parentFiles[i] = file

\* parentFiles.indexOf(file) !== -1
IsAncestor(parentFiles, file) == \E i \in 1..Len(parentFiles) : parentFiles[i] = file

\* const file = path.join(dirname, src + '.md')
EmbedTarget(f) == join(dirname(f.file), f.spans[f.idx].src \o MdExt)

AtEmbed(s) ==
    /\ Rendering(s)
    /\ Top(s).pc = "embeds"
    /\ Top(s).idx <= Len(Top(s).cells)

\* (mutant) the link keeps the bare reference
CycleLinkNoExtension(span) == Anchor(span.src, span.text)

\* span.outerHTML = `<a href="${src+'.md'}">${span.innerHTML}</a>`
CycleLink(span) == Anchor(span.src \o MdExt, span.text)

\* .obsidian/config as getAppConfig finds it: the theme it names, or no file
Configs == {"light", "dark", "unreadable"}

\* config.theme !== 'obsidian', and true when the config cannot be read
currentThemeIsLight(config) == config # "dark"

\* appCSSVariables(light)
appCSSVariables(light) == IF light THEN <<"vars-light">> ELSE <<"vars-dark">>

\* (mutant) no CSS for the diagrams when CSS injection is switched off
mermaidCSSUnlessNone(injectAppCSS, config) ==
    IF injectAppCSS = "none" THEN EmptyStr
    ELSE appCSSVariables(IF injectAppCSS = "dark" THEN FALSE
                         ELSE IF injectAppCSS = "current" THEN currentThemeIsLight(config)
                         ELSE TRUE)

\* mermaidCSS: light unless 'dark' is asked for, or 'current' and the theme is dark
mermaidCSS(injectAppCSS, config) ==
    appCSSVariables(IF injectAppCSS = "dark" THEN FALSE
                    ELSE IF injectAppCSS = "current" THEN currentThemeIsLight(config)
                    ELSE TRUE)

\* render, up to the call of postProcessRenderedHTML: the wrapper is created
\* and appended, the host renderer fills it or throws, and mermaidCSS makes
\* the CSS for the diagrams.  The text of a note is fixed the first time the
\* export looks at it.
renderMarkdown(s) ==
    /\ Rendering(s)
    /\ Top(s).pc = "start"
    /\ mounted' = mounted + 1
    /\ LET t == tasks[s]
           f == Top(s)
           d == DocOf(f.file)
       IN  \/ tasks' = [tasks EXCEPT ![s] = Unwind(t, <<"Error: renderMarkdown">>)]
           \/ \E c \in (IF t.seen[d].read THEN {t.seen[d].elems} ELSE Contents),
                 config \in Configs :
                \* the config is read for 'current' only
                /\ settings.injectAppCSS # "current" => config = "light"
                /\ tasks' = [tasks EXCEPT ![s] =
                     [SetTop(t, [f EXCEPT !.pc = "embeds", !.spans = c,
                                          !.css = mermaidCSS(settings.injectAppCSS, config),
                                          !.cells = [i \in 1..Len(c) |-> <<c[i]>>],
                                          !.idx = NextOf(c, "embed", 1)])
                        EXCEPT !.seen[d].read = TRUE, !.seen[d].elems = c]]
    /\ UNCHANGED <<plugin, settings, features, env, fs, nStarted, calls>>

\* the embed names a file that is being rendered further up: a link, no recursion
embedAsLink(s) ==
    /\ AtEmbed(s)
    /\ IsAncestor(Top(s).parentFiles, EmbedTarget(Top(s)))
    /\ tasks' = [tasks EXCEPT ![s] =
           SetTop(@, AdvanceEmbed(Top(s), <<CycleLink(Top(s).spans[Top(s).idx])>>))]
    /\ UNCHANGED <<plugin, settings, features, env, fs, mounted, nStarted, calls>>

\* fs.promises.readFile(file) rejects: caught, logged, the span stays
embedReadFails(s) ==
    /\ AtEmbed(s)
    /\ ~IsAncestor(Top(s).parentFiles, EmbedTarget(Top(s)))
    /\ ~Readable(EmbedTarget(Top(s)))
    /\ tasks' = [tasks EXCEPT ![s] =
           SetTop(@, AdvanceEmbed(Top(s), Top(s).cells[Top(s).idx]))]
    /\ UNCHANGED <<plugin, settings, features, env, fs, mounted, nStarted, calls>>

\* newParentFiles = [...parentFiles]; newParentFiles.push(inputFile)
NewParentFiles(f) == Append(f.parentFiles, f.file)

\* (mutant) newParentFiles = parentFiles: the push is seen by the caller
parentFilesShared(f) == Append(f.parentFiles, f.file)

\* [...parentFiles] is a copy: the list of the embedding call stays as it is
parentFilesAfterPush(f) == f.parentFiles

\* the file is read and render is called on it with the extended ancestor list
embedRecurse(s) ==
    /\ AtEmbed(s)
    /\ ~IsAncestor(Top(s).parentFiles, EmbedTarget(Top(s)))
    /\ Readable(EmbedTarget(Top(s)))
    /\ tasks' = [tasks EXCEPT ![s].stack =
           Append([@ EXCEPT ![Len(@)].parentFiles = parentFilesAfterPush(Top(s))],
                  Frame(EmbedTarget(Top(s)), NewParentFiles(Top(s))))]
    /\ UNCHANGED <<plugin, settings, features, env, fs, mounted, nStarted, calls>>

\* the new reference of an internal link that stays a link: the path under
\* the document's directory, with the configured extension put in when
\* path.extname finds none
rewriteHref(extension, dir, href) ==
    LET joined == joinAll(dir, substring(href, Len(prefix)))
        base == basename(joined)
        hashIndex == indexOf(base, "#")
    IN  IF extension # EmptyStr /\ startsWith(href, prefix) /\ extname(joined) = EmptyStr
          THEN IF hashIndex # 0
                 THEN join(dirname(joined),
                           SubSeq(base, 1, hashIndex - 1) \o <<".">> \o extension
                              \o SubSeq(base, hashIndex, Len(base)))
                 ELSE join(dirname(joined), base \o <<".">> \o extension)
          ELSE joined

\* (mutant) the setting decides for HTML too
fixAnchorByModeOnly(st, format, dir, a) ==
    IF ~startsWith(resolve(a.src), prefix) THEN <<a>>
    ELSE IF st.linkStrippingBehaviour = "link"
      THEN <<[a EXCEPT !.src = pathString(rewriteHref(st.addExtensionsToInternalLinks,
                                                       dir, resolve(a.src)))]>>
    ELSE IF st.linkStrippingBehaviour = "strip" THEN << >>
    ELSE IF st.linkStrippingBehaviour = "text" THEN <<PlainText(a.text)>>
    ELSE <<a>>

\* (mutant) 'text' is not handled: the anchor stays as it is
fixAnchorNoText(st, format, dir, a) ==
    IF ~startsWith(resolve(a.src), prefix) THEN <<a>>
    ELSE IF st.linkStrippingBehaviour = "link" \/ format = "html"
      THEN <<[a EXCEPT !.src = pathString(rewriteHref(st.addExtensionsToInternalLinks,
                                                       dir, resolve(a.src)))]>>
    ELSE IF st.linkStrippingBehaviour = "strip" THEN << >>
    ELSE <<a>>

\* one turn of the loop over the anchors: what stands in the anchor's place
fixAnchor(st, format, dir, a) ==
    IF ~startsWith(resolve(a.src), prefix) THEN <<a>>
    ELSE IF st.linkStrippingBehaviour = "link" \/ format = "html"
      THEN <<[a EXCEPT !.src = pathString(rewriteHref(st.addExtensionsToInternalLinks,
                                                       dir, resolve(a.src)))]>>
    ELSE IF st.linkStrippingBehaviour = "strip" THEN << >>
    ELSE IF st.linkStrippingBehaviour = "text" THEN <<PlainText(a.text)>>
    ELSE <<a>>

\* (mutant) the images are handled in the embedded calls too
fixImageEveryCall(format, parentFiles, dir, img) ==
    IF format # "html" /\ startsWith(resolve(img.src), prefix)
      THEN [img EXCEPT !.src = pathString(joinAll(dir, substring(resolve(img.src), Len(prefix))))]
      ELSE img

\* one turn of the loop over the images, which runs for a target other than
\* HTML and in the top-level call only
fixImage(format, parentFiles, dir, img) ==
    IF format # "html" /\ Len(parentFiles) = 0 /\ startsWith(resolve(img.src), prefix)
      THEN [img EXCEPT !.src = pathString(joinAll(dir, substring(resolve(img.src), Len(prefix))))]
      ELSE img

\* the anchor and image passes over the fragment with its embeds expanded (no
\* frontmatter element is among the elements here); the diagrams are then
\* looked up in the same fragment
postProcessLinks(s) ==
    /\ Rendering(s)
    /\ Top(s).pc = "embeds"
    /\ Top(s).idx > Len(Top(s).cells)
    /\ \E flat \in {Flatten(Top(s).cells)} :
       \E anchors \in {Flatten([k \in 1..Len(flat) |->
                           IF flat[k].t = "a"
                             THEN fixAnchor(settings, tasks[s].format,
                                            dirname(Top(s).file), flat[k])
                             ELSE <<flat[k]>>])} :
       \E body \in {[k \in 1..Len(anchors) |->
                        IF anchors[k].t = "img"
                          THEN fixImage(tasks[s].format, Top(s).parentFiles,
                                        dirname(Top(s).file), anchors[k])
                          ELSE anchors[k]]} :
          tasks' = [tasks EXCEPT ![s] =
               SetTop(@, [Top(s) EXCEPT !.pc = "svgs", !.body = body,
                                        !.idx = NextOf(body, "svg", 1)])]
    /\ UNCHANGED <<plugin, settings, features, env, fs, mounted, nStarted, calls>>

\* convertSVGToPNG returns a promise that only svgImg.onload resolves
convertSVGToPNG(loaded) == IF loaded THEN "resolved" ELSE "pending"

\* (mutant) the PNG is appended to the fragment and the SVG stays
replaceChildAppends(body, i, el) == Append(body, el)

\* svg.parentNode.replaceChild(png, svg)
replaceChild(body, i, el) == [body EXCEPT ![i] = el]

\* one diagram: the CSS is added to its style and the marker is injected; for
\* a target other than HTML the loop then awaits the PNG
fixDiagram(s) ==
    /\ Rendering(s)
    /\ Top(s).pc = "svgs"
    /\ Top(s).idx <= Len(Top(s).body)
    /\ \E f \in {[Top(s) EXCEPT !.body[Top(s).idx].text = @ \o Top(s).css]},
          next \in {NextOf(Top(s).body, "svg", Top(s).idx + 1)} :
           IF tasks[s].format = "html"
             THEN tasks' = [tasks EXCEPT ![s] = SetTop(@, [f EXCEPT !.idx = next])]
             ELSE \E loaded \in BOOLEAN :
                    tasks' = [tasks EXCEPT ![s] =
                       SetTop(@, IF convertSVGToPNG(loaded) = "resolved"
                                   THEN [f EXCEPT !.body = replaceChild(f.body, f.idx, Png),
                                                  !.idx = next]
                                   ELSE [f EXCEPT !.pc = "hung"])]
    /\ UNCHANGED <<plugin, settings, features, env, fs, mounted, nStarted, calls>>

\* YAML.parse(frontmatter): null for an empty text, a mapping of the keys of
\* its lines, and an exception for a text that is not YAML
YAMLparse(frontmatter) ==
    IF frontmatter = << >> THEN [kind |-> "null", title |-> EmptyStr]
    ELSE IF \E i \in 1..Len(frontmatter) : frontmatter[i] = "{"
      THEN [kind |-> "throws", title |-> EmptyStr]
    ELSE [kind |-> "map",
          title |-> IF \E i \in 1..Len(frontmatter) : frontmatter[i] = "title: My title"
                      THEN <<"My title">> ELSE EmptyStr]

\* getYAMLMetadata: the text from the opening marker up to the next marker is
\* parsed (up to nothing when there is no next marker: indexOf gives -1 and
\* substring(0, -1) is empty); an empty mapping when the text opens with no
\* marker
getYAMLMetadata(markdown) ==
    IF startsWith(markdown, <<"---">>)
      THEN LET trailing == substring(markdown, 1)
               end == indexOf(trailing, "---")
           IN  YAMLparse(IF end = 0 THEN << >> ELSE SubSeq(trailing, 1, end - 1))
      ELSE [kind |-> "map", title |-> EmptyStr]

\* YAML.parse throws on a header block it cannot parse
getYAMLMetadataThrows(header) == getYAMLMetadata(HeaderText(header)).kind = "throws"

\* metadata.title ??= ... on the null that YAML.parse gives for an empty text
TitleThrows(header) == getYAMLMetadata(HeaderText(header)).kind = "null"

\* (mutant) the title is the file's name with its extension
TitleIsFileName(header, file) == basename(file)

\* (mutant) the file's name is the title whatever the header says
TitleIgnoresHeader(header, file) == fileBaseName(file)

\* metadata.title ??= fileBaseName(inputFile)
Title(header, file) ==
    IF getYAMLMetadata(HeaderText(header)).title # EmptyStr
      THEN getYAMLMetadata(HeaderText(header)).title
      ELSE fileBaseName(file)

\* getThemeCSS: nothing for 'none' or when the config cannot be read; else the
\* app's CSS in the colours asked for, followed by the stylesheet of the
\* theme when injectThemeCSS is on.  When that stylesheet cannot be read css
\* stays undefined, css.toString() throws and the outer catch returns ''
getThemeCSS(injectAppCSS, injectThemeCSS, config, theme) ==
    IF injectAppCSS = "none" \/ config = "unreadable" THEN EmptyStr
    ELSE IF injectThemeCSS /\ theme = "unreadable" THEN EmptyStr
    ELSE (IF injectAppCSS = "dark" \/ (injectAppCSS = "current" /\ config = "dark")
            THEN <<"app-dark">>
            ELSE <<"app-light">>)
         \o (IF injectThemeCSS THEN <<"theme.css">> ELSE EmptyStr)

\* the buffer of getCustomCSS after its two reads: the file under the vault
\* is read after the absolute one, and what it holds replaces the buffer
customBuffer(absolute, relative) ==
    IF relative = "readable" THEN <<"custom-relative">>
    ELSE IF absolute = "readable" THEN <<"custom-absolute">>
    ELSE <<"null">>

\* new Notice('Failed to load custom Pandoc CSS file: ' + ...)
customCSSNotice(customCSSFile, absolute, relative) ==
    IF customCSSFile # EmptyStr /\ customBuffer(absolute, relative) = <<"null">>
      THEN <<"Failed to load custom Pandoc CSS file">>
      ELSE << >>

\* getCustomCSS returns undefined when no file is configured, and that is
\* appended to the string as the text 'undefined'
getCustomCSS(customCSSFile, absolute, relative) ==
    IF customCSSFile = EmptyStr THEN <<"undefined">>
    ELSE IF customBuffer(absolute, relative) = <<"null">> THEN EmptyStr
    ELSE customBuffer(absolute, relative)

\* html.indexOf('jax="CHTML"') !== -1
hasMathJax(body) == \E k \in 1..Len(body) : body[k].t = "math"

\* getDesiredCSS: the theme, the text of every <style> of the live document
\* unless 'none' is configured, the fonts of MathJax when the fragment has
\* its marker, then the custom CSS (the blanks between them are left out)
getDesiredCSS(st, body, config, styles, files) ==
    getThemeCSS(st.injectAppCSS, st.injectThemeCSS, config, files.theme)
       \o (IF st.injectAppCSS # "none" THEN styles ELSE EmptyStr)
       \o (IF hasMathJax(body) THEN <<"mathjax-fonts">> ELSE EmptyStr)
       \o getCustomCSS(st.customCSSFile, files.customAbsolute, files.customRelative)

\* the text of the <style> elements among the elements of a fragment
StylesOf(elems) ==
    Flatten([k \in 1..Len(elems) |-> IF elems[k].t = "svg" THEN elems[k].text ELSE << >>])

\* what a call of render has in its wrapper while the wrapper is mounted
Wrapper(f) ==
    IF f.pc = "start" THEN << >> ELSE IF f.pc = "embeds" THEN Flatten(f.cells) ELSE f.body

\* document.querySelectorAll('style'): the app's own stylesheet and the styles
\* in the wrappers that the given chains of render calls have mounted
DocumentStyles(stacks) ==
    <<"app.css">> \o
    Flatten([s \in AllSlots |->
               Flatten([i \in 1..Len(stacks[s]) |-> StylesOf(Wrapper(stacks[s][i]))])])

standaloneHTML(body, title, css) ==
    [standalone |-> TRUE, title |-> title, css |-> css, body |-> body]

\* (mutant) every call of render wraps its fragment
IsTopLevelAlways(parentFiles) == TRUE

\* parentFiles.length === 0
IsTopLevel(parentFiles) == Len(parentFiles) = 0

\* the HTML of a call as a string, as span.outerHTML = html.html receives it
Serialize(html) ==
    IF html.standalone THEN <<Doctype(html.title)>> \o html.body ELSE html.body

\* the rest of render: the HTML is taken, the wrapper removed, the metadata
\* parsed; the top-level call wraps the fragment, an embedded call returns it
\* to the embed loop, which puts it in place of the span
finishRender(s) ==
    /\ Rendering(s)
    /\ Top(s).pc = "svgs"
    /\ Top(s).idx > Len(Top(s).body)
    /\ mounted' = mounted - 1
    /\ \E header \in AllHeaders, config \in Configs :
         LET f == Top(s)
             d == DocOf(f.file)
             t == [tasks[s] EXCEPT !.seen[d].header = header]
             rest == SubSeq(t.stack, 1, Len(t.stack) - 1)
             styles == DocumentStyles([x \in AllSlots |->
                                         IF x = s THEN rest ELSE tasks[x].stack])
             result == IF IsTopLevel(f.parentFiles)
                         THEN standaloneHTML(f.body, Title(header, f.file),
                                             getDesiredCSS(settings, f.body, config,
                                                           styles, env))
                         ELSE [NoHtml EXCEPT !.body = f.body]
         IN  /\ \/ tasks[s].seen[d].header = header
                \/ (tasks[s].seen[d].header = "unread" /\ header \in Headers)
             \* the config is read by getThemeCSS only, and not for 'none'
             /\ (~(IsTopLevel(f.parentFiles) /\ settings.injectAppCSS # "none"
                     /\ ~getYAMLMetadataThrows(header) /\ ~TitleThrows(header))
                  => config = "light")
             /\ IF getYAMLMetadataThrows(header)
                  THEN tasks' = [tasks EXCEPT ![s] = Unwind(t, <<"YAMLParseError">>)]
                ELSE IF TitleThrows(header)
                  THEN tasks' = [tasks EXCEPT ![s] = Unwind(t, <<"TypeError">>)]
                ELSE \E html \in {result} :
                  tasks' = [tasks EXCEPT ![s] =
                     IF rest = << >>
                       THEN [IdleTask EXCEPT
                               !.pc = "emit", !.kind = t.kind, !.file = t.file,
                               !.format = t.format, !.html = html,
                               !.warnings = customCSSNotice(settings.customCSSFile,
                                               env.customAbsolute, env.customRelative)]
                       ELSE [t EXCEPT !.stack =
                               [rest EXCEPT ![Len(rest)] =
                                   AdvanceEmbed(rest[Len(rest)], Serialize(html))]]]
    /\ UNCHANGED <<plugin, settings, features, env, fs, nStarted, calls>>

(***************************************************************************)
(* pandoc.ts: pandoc(input, output).  The converter process is the         *)
(* environment: it writes chunks to its streams, may write the destination *)
(* file, and exits.  The two streams are delivered independently.          *)
(***************************************************************************)
\* spawn(input.pandoc || 'pandoc', ...): which binary the call runs
Binary(configured) == IF configured # EmptyStr THEN "override" ELSE "onPath"

\* start(): nothing listens for the child's 'error' event, so a spawn that
\* fails is only seen through the streams: stdout ends at once, or never
start(c, spawned, eof) ==
    [c EXCEPT !.pc = "running",
              !.spawnFailed = ~spawned,
              !.proc = IF spawned THEN "run" ELSE IF eof THEN "failedEnd" ELSE "failedDead"]

\* const env = Object.assign(process.env) is process.env itself, so
\* env.PATH += ':' + path.dirname(input.pdflatex) extends the PATH of the host
\* process (a list of directories here, the delimiter left out)
addToPATH(PATH, pdflatex) ==
    IF pdflatex # EmptyStr THEN Append(PATH, dirname(pdflatex)) ELSE PATH

Spawn(s, c, configured, pdflatex) ==
    \E spawned, eof \in BOOLEAN :
       /\ env[Binary(configured)] # "unknown" => (spawned <=> env[Binary(configured)] = "yes")
       /\ spawned => eof
       /\ env' = [env EXCEPT ![Binary(configured)] = IF spawned THEN "yes" ELSE "no",
                              !.PATH = addToPATH(@, pdflatex)]
       /\ calls' = [calls EXCEPT ![s] = start(c, spawned, eof)]

NewCall(input, sink, dest) ==
    [NoCall EXCEPT !.pc = "statIn", !.input = input, !.sink = sink, !.dest = dest]

\* stats && stats.isFile()
IsFile(state) == state # "absent"

\* (mutant) diagnostics reject the promise as soon as they arrive
OnStderrDataRejects(c, chunk) ==
    [c EXCEPT !.error = @ \o <<chunk>>, !.pc = "settled", !.promise = "rejected",
              !.rejection = <<chunk>>]

\* pandoc.stderr.on('data'): error += err
OnStderrData(c, chunk) == [c EXCEPT !.error = @ \o <<chunk>>]

\* pandoc.stdout.on('data'): result += data
OnStdoutData(c, chunk) == [c EXCEPT !.result = @ \o <<chunk>>]

\* String(e) of what the promise was rejected with
ObjectString == <<"[object Object]">>

InputMissing == <<"Error: Input file does not exist">>

Running(s) == calls[s].pc \in {"running", "statOut", "settled"}

\* the converter writes a chunk of diagnostics
procStderr(s) ==
    /\ calls[s].proc = "run"
    /\ Len(calls[s].emitted) < MaxChunks
    /\ calls' = [calls EXCEPT ![s].emitted = Append(@, "warning"),
                              ![s].errPipe = Append(@, "warning")]
    /\ UNCHANGED <<plugin, settings, features, env, fs, mounted, nStarted, tasks>>

\* the converter writes a chunk of its result to standard output (-o -)
procStdout(s) ==
    /\ calls[s].proc = "run"
    /\ calls[s].sink = "STDOUT"
    /\ Len(calls[s].result) + Len(calls[s].outPipe) < MaxChunks
    /\ calls' = [calls EXCEPT ![s].outPipe = Append(@, "json")]
    /\ UNCHANGED <<plugin, settings, features, env, fs, mounted, nStarted, tasks>>

\* the converter exits, having written the destination file, an empty
\* destination file, or none
procExit(s) ==
    /\ calls[s].proc = "run"
    /\ \E w \in {"none", "empty", "file"} :
         /\ calls[s].sink = "STDOUT" => w = "none"
         /\ calls' = [calls EXCEPT ![s].proc = "exited", ![s].wrote = w]
         /\ fs' = IF w = "none" THEN fs ELSE [fs EXCEPT ![calls[s].dest] = w]
    /\ UNCHANGED <<plugin, settings, features, env, mounted, nStarted, tasks>>

stderrData(s) ==
    /\ Running(s)
    /\ calls[s].errPipe # << >>
    /\ calls' = [calls EXCEPT ![s] =
          OnStderrData([@ EXCEPT !.errPipe = Tail(@)], Head(calls[s].errPipe))]
    /\ UNCHANGED <<plugin, settings, features, env, fs, mounted, nStarted, tasks>>

stdoutData(s) ==
    /\ Running(s)
    /\ calls[s].outPipe # << >>
    /\ calls' = [calls EXCEPT ![s] =
          OnStdoutData([@ EXCEPT !.outPipe = Tail(@)], Head(calls[s].outPipe))]
    /\ UNCHANGED <<plugin, settings, features, env, fs, mounted, nStarted, tasks>>

\* pandoc.stdout.on('end'): value is built from result and error as they are
\* now; a file sink goes on to fs.stat, an in-memory sink settles at once
\* (the first of the two settling calls wins, and it passes value)
OnStdoutEnd(c) ==
    LET value == [result |-> c.result, error |-> c.error]
        ended == [c EXCEPT !.ended = TRUE, !.value = value]
    IN  IF c.sink # "STDOUT"
          THEN [ended EXCEPT !.pc = "statOut"]
          ELSE IF Len(c.result) > 0
            THEN [ended EXCEPT !.pc = "settled", !.promise = "resolved"]
            ELSE [ended EXCEPT !.pc = "settled", !.promise = "rejected",
                               !.rejection = ObjectString]

stdoutEnd(s) ==
    /\ calls[s].pc = "running"
    /\ calls[s].proc \in {"exited", "failedEnd"}
    /\ calls[s].outPipe = << >>
    /\ calls' = [calls EXCEPT ![s] = OnStdoutEnd(@)]
    /\ UNCHANGED <<plugin, settings, features, env, fs, mounted, nStarted, tasks>>

\* (mutant) the rejection carries the diagnostics as they were at 'end'
OnOutputStatStaleError(c, stats) ==
    IF IsFile(stats)
      THEN [c EXCEPT !.pc = "settled", !.promise = "resolved"]
      ELSE [c EXCEPT !.pc = "settled", !.promise = "rejected", !.rejection = c.value.error]

\* the callback of fs.stat(output.file): resolve(value) if the file exists,
\* reject(error) otherwise
OnOutputStat(c, stats) ==
    IF IsFile(stats)
      THEN [c EXCEPT !.pc = "settled", !.promise = "resolved"]
      ELSE [c EXCEPT !.pc = "settled", !.promise = "rejected", !.rejection = c.error]

outputStat(s) ==
    /\ calls[s].pc = "statOut"
    /\ calls' = [calls EXCEPT ![s] = OnOutputStat(@, fs[calls[s].dest])]
    /\ UNCHANGED <<plugin, settings, features, env, fs, mounted, nStarted, tasks>>

\* the callback of stat(input.file) for an input that is not STDIN:
\* stats.isFile() throws when there are no stats
inputStat(s) ==
    /\ calls[s].pc = "statIn"
    /\ CASE calls[s].input = "file" ->
              Spawn(s, calls[s], EmptyStr, EmptyStr)
         [] calls[s].input = "directory" ->
              /\ calls' = [calls EXCEPT ![s].pc = "settled", ![s].promise = "rejected",
                                        ![s].rejection = InputMissing]
              /\ UNCHANGED env
         [] OTHER ->
              /\ calls' = [calls EXCEPT ![s].pc = "dead"]
              /\ UNCHANGED env
    /\ UNCHANGED <<plugin, settings, features, fs, mounted, nStarted, tasks>>

(***************************************************************************)
(* main.ts: the export command and startPandocExport.                      *)
(***************************************************************************)
InFlight(s) == tasks[s].pc \in {"render", "emit", "pandoc"}

Finished(t, notice, diag) ==
    [IdleTask EXCEPT !.pc = "done", !.kind = t.kind, !.file = t.file,
                     !.format = t.format, !.notice = notice, !.diag = diag]

\* registerCommands' checkCallback with checking = false: nothing happens when
\* currentFileCanBeExported says no, otherwise startPandocExport is called and
\* runs up to its first await, the top-level call of render
checkCallback(s) ==
    /\ plugin = "ready"
    /\ ~InFlight(s)
    /\ nStarted < MaxExports
    /\ nStarted' = nStarted + 1
    /\ \E d \in ActiveDocs, format \in Formats :
         tasks' = [tasks EXCEPT ![s] =
            IF currentFileCanBeExported(format)
              THEN [IdleTask EXCEPT !.pc = "render", !.kind = "export",
                                    !.file = getCurrentFile(d), !.format = format,
                                    !.stack = <<Frame(getCurrentFile(d), << >>)>>]
              ELSE [IdleTask EXCEPT !.pc = "refused", !.kind = "export",
                                    !.file = getCurrentFile(d), !.format = format]]
    /\ calls' = [calls EXCEPT ![s] = NoCall]
    /\ UNCHANGED <<plugin, settings, features, env, fs, mounted>>

\* format === 'html': await fs.promises.writeFile(outputFile, html)
writeHTML(s) ==
    /\ tasks[s].pc = "emit"
    /\ tasks[s].format = "html"
    /\ \E written \in BOOLEAN :
         IF written
           THEN /\ fs' = [fs EXCEPT ![OutputFile(tasks[s].file, "html")] = "file"]
                /\ tasks' = [tasks EXCEPT ![s] = Finished(@, "success", EmptyStr)]
           ELSE /\ fs' = fs
                /\ tasks' = [tasks EXCEPT ![s] = Failed(@, <<"Error: writeFile">>)]
    /\ UNCHANGED <<plugin, settings, features, env, mounted, nStarted, calls>>

\* otherwise: pandoc({ file: 'STDIN', contents: html, ... }, { file: outputFile,
\* format }); with STDIN as input the process is spawned at once
spawnPandoc(s) ==
    /\ tasks[s].pc = "emit"
    /\ tasks[s].format # "html"
    /\ Spawn(s, NewCall("STDIN", "file", OutputFile(tasks[s].file, tasks[s].format)),
             settings.pandoc, settings.pdflatex)
    /\ tasks' = [tasks EXCEPT ![s].pc = "pandoc", ![s].html = NoHtml]
    /\ UNCHANGED <<plugin, settings, features, fs, mounted, nStarted>>

\* what stays on record of a call once its caller has gone on: whether the
\* process was spawned, what it wrote, and the diagnostics it emitted
Closed(c) ==
    [NoCall EXCEPT !.pc = "closed", !.input = c.input, !.sink = c.sink, !.dest = c.dest,
                   !.spawnFailed = c.spawnFailed, !.wrote = c.wrote,
                   !.emitted = c.emitted, !.ended = c.ended, !.promise = c.promise]

\* if (error.length && format !== 'plain') ... with warnings ... else Successfully
Outcome(error, format) ==
    IF Len(error) > 0 /\ format # "plain" THEN "warnings" ELSE "success"

\* startPandocExport after the await on pandoc(): the notices of the try
\* block when the promise resolved, the catch when it rejected
exportSettled(s) ==
    /\ tasks[s].pc = "pandoc"
    /\ tasks[s].kind = "export"
    /\ calls[s].promise # "pending"
    /\ tasks' = [tasks EXCEPT ![s] =
          IF calls[s].promise = "resolved"
            THEN Finished(@, Outcome(calls[s].value.error, @.format), calls[s].value.error)
            ELSE Failed(@, calls[s].rejection)]
    /\ calls' = [calls EXCEPT ![s] = Closed(@)]
    /\ UNCHANGED <<plugin, settings, features, env, fs, mounted, nStarted>>

\* pandoc({ file }, { file: 'STDOUT', format: 'json' }): a call with a file as
\* input and the in-memory sink, as pandocGetAST makes it
pandocGetAST(s) ==
    /\ plugin = "ready"
    /\ ~InFlight(s)
    /\ nStarted < MaxExports
    /\ nStarted' = nStarted + 1
    /\ \E input \in {"file", "directory", "missing"} :
         calls' = [calls EXCEPT ![s] = NewCall(input, "STDOUT", << >>)]
    /\ tasks' = [tasks EXCEPT ![s] = [IdleTask EXCEPT !.pc = "pandoc", !.kind = "call"]]
    /\ UNCHANGED <<plugin, settings, features, env, fs, mounted>>

astSettled(s) ==
    /\ tasks[s].pc = "pandoc"
    /\ tasks[s].kind = "call"
    /\ calls[s].promise # "pending"
    /\ tasks' = [tasks EXCEPT ![s] =
          Finished(@, "none", IF calls[s].promise = "resolved" THEN EmptyStr
                               ELSE calls[s].rejection)]
    /\ calls' = [calls EXCEPT ![s] = Closed(@)]
    /\ UNCHANGED <<plugin, settings, features, env, fs, mounted, nStarted>>

(***************************************************************************)
(* The program.                                                            *)
(***************************************************************************)
\* the steps of render and of the calls of render it makes
RenderStep(s) ==
    \/ renderMarkdown(s)
    \/ embedAsLink(s)
    \/ embedReadFails(s)
    \/ embedRecurse(s)
    \/ postProcessLinks(s)
    \/ fixDiagram(s)
    \/ finishRender(s)

Progress(s) ==
    \/ RenderStep(s)
    \/ writeHTML(s)
    \/ spawnPandoc(s)
    \/ inputStat(s)
    \/ procStderr(s)
    \/ procStdout(s)
    \/ procExit(s)
    \/ stderrData(s)
    \/ stdoutData(s)
    \/ stdoutEnd(s)
    \/ outputStat(s)
    \/ exportSettled(s)
    \/ astSettled(s)

Next ==
    \/ onload
    \/ \E s \in Slots : checkCallback(s)
    \/ \E s \in Slots : pandocGetAST(s)
    \/ \E s \in Slots : Progress(s)

Spec == Init /\ [][Next]_vars

\* the event loop runs every continuation and callback that is ready, and the
\* converter process, once spawned, runs on
FairSpec == Spec /\ \A s \in Slots : WF_vars(Progress(s))

(***************************************************************************)
(* The renderer on its own: an export has just been started on note A of a *)
(* vault whose notes are given, under any settings, and runs up to the     *)
(* HTML it has made (and, for the HTML target, to the file).               *)
(***************************************************************************)
LinkModes == {"text", "link", "strip"}

LinkExtensions == {EmptyStr, <<"html">>}

CSSModes == {"current", "none", "light", "dark"}

AllSettings ==
    {[DEFAULT_SETTINGS EXCEPT !.linkStrippingBehaviour = mode,
                              !.addExtensionsToInternalLinks = extension,
                              !.injectAppCSS = css] :
        mode \in LinkModes, extension \in LinkExtensions, css \in CSSModes}

VaultSize(v) == Len(v["A"]) + Len(v["B"])

RichVaults == {v \in [Docs -> RichContents] : VaultSize(v) <= MaxElems}

SimpleVaults == {v \in [Docs -> Contents] : VaultSize(v) <= MaxElems}

\* the task chain of startPandocExport at its call of render, the notes of
\* the vault being v
Started(d, format, v) ==
    [IdleTask EXCEPT !.pc = "render", !.kind = "export",
                     !.file = getCurrentFile(d), !.format = format,
                     !.stack = <<Frame(getCurrentFile(d), << >>)>>,
                     !.seen = [x \in Docs |->
                                 [read |-> TRUE, elems |-> v[x], header |-> "unread"]]]

InitLoaded ==
    /\ plugin = "ready"
    /\ features = [pandoc |-> PandocOnPath]
    /\ env = NoFiles
    /\ fs = [p \in Dests |-> "absent"]
    /\ mounted = 0
    /\ calls = [s \in AllSlots |-> NoCall]

InitRender ==
    /\ InitLoaded
    /\ settings \in AllSettings
    /\ nStarted = 1
    /\ \E v \in RichVaults, format \in Formats :
          tasks = [s \in AllSlots |-> IF s = 1 THEN Started("A", format, v) ELSE IdleTask]

NextRender == \E s \in AllSlots : RenderStep(s) \/ writeHTML(s)

RenderSpec == InitRender /\ [][NextRender]_vars

\* exports that overlap: each slot holds an export of note A that has just
\* been started
InitOverlap ==
    /\ InitLoaded
    /\ settings \in {[DEFAULT_SETTINGS EXCEPT !.injectAppCSS = css] : css \in CSSModes}
    /\ nStarted = Cardinality(AllSlots)
    /\ \E v \in SimpleVaults, formats \in [AllSlots -> Formats] :
          tasks = [s \in AllSlots |-> Started("A", formats[s], v)]

OverlapSpec == InitOverlap /\ [][NextRender]_vars

\* exports of note A from a vault whose notes have every kind of header
StartedWith(d, format, v, h) ==
    [Started(d, format, v) EXCEPT
        !.seen = [x \in Docs |-> [read |-> TRUE, elems |-> v[x], header |-> h[x]]]]

InitMetadata ==
    /\ InitLoaded
    /\ settings = DEFAULT_SETTINGS
    /\ nStarted = 1
    /\ \E v \in SimpleVaults, h \in [Docs -> AllHeaders], format \in Formats :
          tasks = [s \in AllSlots |->
                     IF s = 1 THEN StartedWith("A", format, v, h) ELSE IdleTask]

MetadataSpec == InitMetadata /\ [][NextRender]_vars

\* exports under every setting of the CSS, from vaults whose notes may hold
\* MathJax output, on machines where the stylesheets can or cannot be read
CustomCSSPath == <<"/", "home", "/", "style", ".", "css">>

CSSSettings ==
    {[DEFAULT_SETTINGS EXCEPT !.injectAppCSS = css, !.injectThemeCSS = theme,
                              !.customCSSFile = file] :
        css \in CSSModes, theme \in BOOLEAN, file \in {EmptyStr, CustomCSSPath}}

Reads == {"readable", "unreadable"}

CSSVaults ==
    {v \in [Docs -> UNION {[1..n -> Elems \cup {MathJax}] : n \in 0..MaxElems}] :
        VaultSize(v) <= MaxElems}

InitCSS ==
    /\ plugin = "ready"
    /\ features = [pandoc |-> PandocOnPath]
    /\ fs = [p \in Dests |-> "absent"]
    /\ mounted = 0
    /\ calls = [s \in AllSlots |-> NoCall]
    /\ settings \in CSSSettings
    /\ \E theme, absolute, relative \in Reads :
          \* a file that no setting names is not looked at
          /\ ~settings.injectThemeCSS => theme = "unreadable"
          /\ settings.customCSSFile = EmptyStr
                => (absolute = "unreadable" /\ relative = "unreadable")
          /\ env = [NoFiles EXCEPT !.theme = theme, !.customAbsolute = absolute,
                                    !.customRelative = relative]
    /\ nStarted = 1
    /\ \E v \in CSSVaults, format \in Formats :
          tasks = [s \in AllSlots |-> IF s = 1 THEN Started("A", format, v) ELSE IdleTask]

CSSSpec == InitCSS /\ [][NextRender]_vars

\* exports by a plugin that was loaded with a saved path of pdflatex
PdflatexOverride == << <<"opt">>, <<"texlive">>, <<"pdflatex">> >>

InitLatex ==
    /\ InitLoaded
    /\ settings = [DEFAULT_SETTINGS EXCEPT !.pdflatex = PdflatexOverride]
    /\ nStarted = 0
    /\ tasks = [s \in AllSlots |-> IdleTask]

ExportStep(s) ==
    \/ checkCallback(s)
    \/ RenderStep(s)
    \/ writeHTML(s)
    \/ spawnPandoc(s)
    \/ procStderr(s)
    \/ procExit(s)
    \/ stderrData(s)
    \/ stdoutEnd(s)
    \/ outputStat(s)
    \/ exportSettled(s)

NextLatex == \E s \in Slots : ExportStep(s)

LatexSpec == InitLatex /\ [][NextLatex]_vars

(***************************************************************************)
(* Properties.                                                             *)
(***************************************************************************)
Files(stack) == [i \in 1..Len(stack) |-> stack[i].file]

Occurrences(seq, x) == Cardinality({i \in 1..Len(seq) : seq[i] = x})

\* C1: with embeds that form cycles the chain of recursive render calls stays
\* finite: each call's ancestor list is the chain above it, no file is being
\* rendered more than twice in one chain, so the chain never has more than
\* twice as many calls as there are notes.
C1_RenderChainFinite ==
    \A s \in Slots :
       LET stack == tasks[s].stack
       IN  /\ Len(stack) <= 2 * Cardinality(Docs)
           /\ \A i \in 1..Len(stack) :
                /\ stack[i].parentFiles = SubSeq(Files(stack), 1, i - 1)
                /\ Occurrences(Files(stack), stack[i].file) <= 2

\* A embeds B and B embeds A: inside the call for B, made from the call for A,
\* the embed of A has been met and the call for B has gone on
C1_Witness ==
    \E s \in Slots :
       /\ Len(tasks[s].stack) = 2
       /\ tasks[s].stack[1].file = getCurrentFile("A")
       /\ tasks[s].stack[2].file = getCurrentFile("B")
       /\ tasks[s].stack[2].pc = "svgs"
       /\ \E i \in 1..Len(tasks[s].stack[2].spans) :
            tasks[s].stack[2].spans[i] = Embed(<<"A">>)

\* C2: when the embed loop is at an embed whose resolved path (directory of
\* the document + reference + '.md') is in the ancestor list of the call, the
\* step it takes puts an anchor to reference + '.md' in the span's place and
\* starts no call of render (nothing is read: the text of no note is fixed by
\* the step).
C2_CycleBecomesLink ==
    [][\A s \in Slots :
         (/\ tasks[s].pc = "render"
          /\ tasks[s].stack # << >>
          /\ Top(s).pc = "embeds"
          /\ Top(s).idx <= Len(Top(s).cells)
          /\ \E i \in 1..Len(Top(s).parentFiles) :
               Top(s).parentFiles[i] =
                  Append(dirname(Top(s).file), Top(s).spans[Top(s).idx].src \o <<".md">>)
          /\ tasks'[s] # tasks[s])
         => /\ tasks'[s].pc = "render"
            /\ Len(tasks'[s].stack) = Len(tasks[s].stack)
            /\ tasks'[s].seen = tasks[s].seen
            /\ tasks'[s].stack[Len(tasks[s].stack)].cells[Top(s).idx] =
                  << [t |-> "a", src |-> Top(s).spans[Top(s).idx].src \o <<".md">>,
                      text |-> Top(s).spans[Top(s).idx].text] >>
            /\ tasks'[s].stack[Len(tasks[s].stack)].idx > Top(s).idx
      ]_vars

\* an embed of an ancestor has been replaced by its link
C2_Witness ==
    \E s \in Slots :
       /\ Rendering(s)
       /\ \E i \in 1..Len(Top(s).cells) :
            /\ Top(s).spans[i].t = "embed"
            /\ Top(s).cells[i] = << [t |-> "a", src |-> Top(s).spans[i].src \o <<".md">>,
                                     text |-> Top(s).spans[i].text] >>
            /\ \E j \in 1..Len(Top(s).parentFiles) :
                 Top(s).parentFiles[j] =
                    Append(dirname(Top(s).file), Top(s).spans[i].src \o <<".md">>)

\* C3 (as claimed): an export that has been started and has not reached its
\* final notice can always take a step, so that no export stays pending for
\* ever.
C3_Claim ==
    \A s \in Slots :
       (tasks[s].kind = "export" /\ InFlight(s)) => ENABLED Progress(s)

\* C4: whatever a step does while a call of render for an embed is running,
\* or while the embed loop is at an embed whose file cannot be read, the
\* calling document stays in its render: the export does not end there, and
\* when the embedded call is gone its parent has moved on to the next span.
C4_EmbedFailureContained ==
    [][\A s \in Slots :
         LET n == Len(tasks[s].stack)
             unreadable ==
                /\ Top(s).pc = "embeds"
                /\ Top(s).idx <= Len(Top(s).cells)
                /\ ~\E d \in Docs : getCurrentFile(d) = EmbedTarget(Top(s))
         IN  (/\ tasks[s].pc = "render"
              /\ n >= 1
              /\ tasks'[s] # tasks[s]
              /\ n >= 2 \/ unreadable)
             => /\ tasks'[s].pc = "render"
                /\ Len(tasks'[s].stack) >= (IF unreadable THEN n ELSE n - 1)
                /\ Len(tasks'[s].stack) = n - 1 =>
                     /\ tasks'[s].stack[n - 1].pc = "embeds"
                     /\ tasks'[s].stack[n - 1].idx > tasks[s].stack[n - 1].idx
                /\ (unreadable /\ ~IsAncestor(Top(s).parentFiles, EmbedTarget(Top(s)))) =>
                     /\ tasks'[s].stack[n].pc = "embeds"
                     /\ tasks'[s].stack[n].idx > Top(s).idx
                     /\ tasks'[s].stack[n].cells[Top(s).idx] = Top(s).cells[Top(s).idx]
      ]_vars

\* an export has come out of its render with an embed that failed still in
\* the fragment and, after it, what a later embed of the same document gave
C4_Witness ==
    \E s \in Slots :
       /\ tasks[s].pc = "emit"
       /\ \E i, j \in 1..Len(tasks[s].html.body) :
            /\ i < j
            /\ tasks[s].html.body[i].t = "embed"
            /\ tasks[s].html.body[j].t = "a"

\* wrappers that the render calls in progress have appended and not yet removed
MountedByCalls ==
    Cardinality({<<s, i>> \in Slots \X (1..(2 * Cardinality(Docs) + 1)) :
                   /\ i <= Len(tasks[s].stack)
                   /\ tasks[s].stack[i].pc # "start"})

\* C5 (as claimed): the wrappers attached to the document are exactly those of
\* the render calls in progress: a call that has returned or thrown has
\* removed its wrapper, and with no export in flight none is mounted.
C5_Claim == mounted = MountedByCalls

\* C6 (as claimed): an export to a format other than HTML is reported as a
\* success (with or without warnings) only if its destination is a file with
\* content.
C6_Claim ==
    \A s \in Slots :
       (/\ tasks[s].kind = "export"
        /\ tasks[s].pc = "done"
        /\ tasks[s].format # "html"
        /\ tasks[s].notice \in {"success", "warnings"})
       => fs[OutputFile(tasks[s].file, tasks[s].format)] = "file"

\* C7: for a destination-file sink, the step that settles the promise after
\* the output has ended resolves it exactly if the destination exists as a
\* file, and otherwise rejects it with the diagnostics delivered so far.
C7_FileGatesResolution ==
    [][\A s \in Slots :
         (calls[s].pc = "statOut" /\ calls'[s].pc = "settled")
         => /\ calls[s].sink = "file"
            /\ calls[s].ended
            /\ calls'[s].promise = "resolved" <=> fs[calls[s].dest] \in {"empty", "file"}
            /\ calls'[s].promise = "rejected" <=> fs[calls[s].dest] = "absent"
            /\ calls'[s].promise = "rejected" =>
                 calls'[s].rejection =
                    SubSeq(calls[s].emitted, 1,
                           Len(calls[s].emitted) - Len(calls[s].errPipe))
      ]_vars

\* a promise rejected with diagnostics that arrived after the output had ended
C7_Witness ==
    \E s \in Slots :
       /\ calls[s].pc = "settled"
       /\ calls[s].sink = "file"
       /\ calls[s].promise = "rejected"
       /\ calls[s].rejection # EmptyStr
       /\ calls[s].value.error = EmptyStr

Live(c) == c.pc \in {"statIn", "running", "statOut", "settled", "dead"}

\* C8 (as claimed): the promise of a call is settled only after the standard
\* output of the converter has ended.
C8_Claim ==
    \A s \in Slots :
       (Live(calls[s]) /\ calls[s].promise # "pending") => calls[s].ended

\* C8 (amended): the promise of a call is settled only after the standard
\* output of the converter has ended, except for the rejection 'Input file
\* does not exist', which is made for an input path that is not a file before
\* any process is spawned.
C8_SettledAfterEnd ==
    \A s \in Slots :
       (Live(calls[s]) /\ calls[s].promise # "pending")
       => \/ calls[s].ended /\ calls[s].proc # "none"
          \/ /\ calls[s].proc = "none"
             /\ calls[s].input = "directory"
             /\ calls[s].promise = "rejected"
             /\ calls[s].rejection = <<"Error: Input file does not exist">>

\* a converter that wrote diagnostics, whose output has ended and whose
\* promise is settled
C8_Witness ==
    \E s \in Slots :
       /\ calls[s].pc = "settled"
       /\ calls[s].proc = "exited"
       /\ calls[s].ended
       /\ calls[s].error # EmptyStr

\* C9 (as claimed): when the converter has written the destination file and
\* has emitted diagnostics, the export is reported as a success with warnings
\* that show them.
C9_Claim ==
    \A s \in Slots :
       (/\ tasks[s].kind = "export"
        /\ tasks[s].pc = "done"
        /\ tasks[s].format # "html"
        /\ calls[s].wrote = "file"
        /\ calls[s].emitted # EmptyStr)
       => (tasks[s].notice = "warnings" /\ tasks[s].diag = calls[s].emitted)

\* C10 (as claimed): the export command for a format other than HTML, run
\* when pandoc is not on the PATH and no override is configured, ends in a
\* failure whose diagnostic names the missing binary, and creates no file.
C10_Claim ==
    \A s \in Slots :
       (/\ tasks[s].kind = "export"
        /\ tasks[s].format # "html"
        /\ ~InFlight(s)
        /\ settings.pandoc = EmptyStr
        /\ env.onPath = "no")
       => /\ tasks[s].notice = "failure"
          /\ tasks[s].diag = <<"Error: spawn pandoc ENOENT">>
          /\ fs[OutputFile(tasks[s].file, tasks[s].format)] = "absent"

\* C11 (as claimed): exports that overlap do not influence each other: the
\* page an export has made, with its CSS, is one that the same export makes
\* when no other export has anything mounted in the document.
C11_Claim ==
    \A s \in AllSlots :
       tasks[s].pc = "emit"
       => tasks[s].html.css \in
             {getDesiredCSS(settings, tasks[s].html.body, config,
                            DocumentStyles([x \in AllSlots |-> << >>]), env) :
                config \in Configs}

\* a step in which the call of render on top of the chain of s goes through
\* its link and image passes
LinkPassStep(s) ==
    /\ tasks[s].pc = "render"
    /\ tasks[s].stack # << >>
    /\ Top(s).pc = "embeds"
    /\ tasks'[s].pc = "render"
    /\ Len(tasks'[s].stack) = Len(tasks[s].stack)
    /\ tasks'[s].stack[Len(tasks[s].stack)].pc = "svgs"

\* the fragment after such a step
After(s) == tasks'[s].stack[Len(tasks[s].stack)].body

\* a reference that the page resolves to the in-app scheme
InApp(ref) == ref # << >> /\ ref[1] \notin {"https:", "data:"}

InAppAnchor(el) == el.t = "a" /\ InApp(el.src)

\* a reference as the host renderer writes it: a file name, then '#' and a
\* heading if there is one
Bare(ref) == InApp(ref) /\ \A i \in 1..Len(ref) : ref[i] # "/"

FileName(ref) ==
    IF \E i \in 1..Len(ref) : ref[i] = "#"
      THEN SubSeq(ref, 1, (CHOOSE i \in 1..Len(ref) :
                             ref[i] = "#" /\ \A j \in 1..(i - 1) : ref[j] # "#") - 1)
      ELSE ref

\* C12 (as claimed): when an internal link is kept as a link, the extension
\* setting E is not empty and the file name of the reference (what stands
\* before any '#') has no extension, the new reference is the path under the
\* document's directory of the file name, '.', E and then the '#' part
\* unchanged.
C12_Claim ==
    [][\A s \in AllSlots :
         (/\ LinkPassStep(s)
          /\ settings.linkStrippingBehaviour = "link" \/ tasks[s].format = "html"
          /\ settings.addExtensionsToInternalLinks # << >>)
         => LET flat == Flatten(Top(s).cells)
            IN  \A k \in 1..Len(flat) :
                  (/\ flat[k].t = "a"
                   /\ Bare(flat[k].src)
                   /\ \A i \in 1..Len(FileName(flat[k].src)) :
                         FileName(flat[k].src)[i] \notin {".", ".md"})
                  => After(s)[k].src =
                        <<"/", "vault", "/">> \o FileName(flat[k].src)
                           \o <<".">> \o settings.addExtensionsToInternalLinks
                           \o SubSeq(flat[k].src, Len(FileName(flat[k].src)) + 1,
                                     Len(flat[k].src))
      ]_vars

\* a step in which the top-level call of render of s returns its page
PageStep(s) ==
    /\ tasks[s].pc = "render"
    /\ Len(tasks[s].stack) = 1
    /\ tasks'[s].pc = "emit"

\* note A holds one internal link, to Other, and nothing else
OnlyLinkToOther(s) ==
    /\ Len(Top(s).spans) = 1
    /\ Top(s).spans[1].t = "a"
    /\ Top(s).spans[1].src = <<"Other">>

\* C13 (as claimed): exporting a note without header and embeds that holds an
\* internal link to Other to HTML in mode "text" gives a page in whose body
\* the link is plain text, no anchor, and whose title is the note's name.
C13_Claim ==
    [][\A s \in AllSlots :
         (/\ PageStep(s)
          /\ OnlyLinkToOther(s)
          /\ tasks[s].format = "html"
          /\ settings.linkStrippingBehaviour = "text")
         => /\ tasks'[s].html.title = <<"A">>
            /\ tasks'[s].html.body =
                  << [t |-> "text", src |-> << >>, text |-> Top(s).spans[1].text] >>
      ]_vars

\* C13 (amended): that export gives a page whose title is the note's name
\* and in whose body the link to Other is still an anchor, with the same
\* text and with the path of Other under the note's directory as reference,
\* the link extension added if one is configured; and the step that reports
\* the export a success has written the page to the note's .html file.
C13_HtmlPageKeepsLink ==
    [][\A s \in AllSlots :
         /\ (/\ PageStep(s)
              /\ OnlyLinkToOther(s)
              /\ tasks[s].format = "html"
              /\ settings.linkStrippingBehaviour = "text")
             => /\ tasks'[s].html.standalone
                /\ tasks'[s].html.title = <<"A">>
                /\ tasks'[s].html.body =
                      << [t |-> "a",
                          src |-> <<"/", "vault", "/", "Other">> \o
                                  (IF settings.addExtensionsToInternalLinks = << >>
                                     THEN << >>
                                     ELSE <<".">> \o settings.addExtensionsToInternalLinks),
                          text |-> Top(s).spans[1].text] >>
         /\ (/\ tasks[s].pc = "emit"
              /\ tasks[s].format = "html"
              /\ tasks'[s].pc = "done"
              /\ tasks'[s].notice = "success")
             => fs'[<< <<"vault">>, <<"A", ".", "html">> >>] = "file"
      ]_vars

\* in mode "text" the page of an HTML export has been made, with the link
\* to Other in it as an anchor
C13_Witness ==
    \E s \in AllSlots :
       /\ tasks[s].pc = "emit"
       /\ tasks[s].format = "html"
       /\ settings.linkStrippingBehaviour = "text"
       /\ tasks[s].html.title = <<"A">>
       /\ Len(tasks[s].html.body) = 1
       /\ tasks[s].html.body[1].t = "a"
       /\ tasks[s].html.body[1].src = <<"/", "vault", "/", "Other", ".", "html">>

\* C14: for the HTML target the link pass leaves every element in its place
\* and every internal link an anchor with its text and a new reference, an
\* absolute path, whatever the link-processing mode is.
C14_HtmlLinksStayAnchors ==
    [][\A s \in AllSlots :
         (LinkPassStep(s) /\ tasks[s].format = "html")
         => LET flat == Flatten(Top(s).cells)
            IN  /\ Len(After(s)) = Len(flat)
                /\ \A k \in 1..Len(flat) :
                      InAppAnchor(flat[k])
                      => /\ After(s)[k].t = "a"
                         /\ After(s)[k].text = flat[k].text
                         /\ After(s)[k].src # flat[k].src
                         /\ After(s)[k].src[1] = "/"
      ]_vars

\* an HTML export in mode "strip" whose fragment has been through the link
\* pass and holds an internal link that the host renderer made, as an anchor
C14_Witness ==
    \E s \in AllSlots :
       /\ Rendering(s)
       /\ tasks[s].format = "html"
       /\ settings.linkStrippingBehaviour = "strip"
       /\ Top(s).pc = "svgs"
       /\ \E k \in 1..Len(Top(s).body) :
            /\ Top(s).body[k].t = "a"
            /\ Top(s).body[k].text = <<"label">>
            /\ Top(s).body[k].src[1] = "/"

\* C15: for a target other than HTML the link pass handles every anchor
\* with an in-app reference by the mode: "link" keeps it, in its place and
\* with its text, the reference an absolute path; "text" puts its text in its
\* place; "strip" takes it out and leaves the other elements in their order;
\* other anchors stay as they are, and in the modes "text" and "strip" no
\* anchor with an in-app reference is left.
C15_ModeDecidesLinks ==
    [][\A s \in AllSlots :
         (LinkPassStep(s) /\ tasks[s].format # "html")
         => LET flat == Flatten(Top(s).cells)
                mode == settings.linkStrippingBehaviour
                kept == {k \in 1..Len(flat) : ~InAppAnchor(flat[k])}
            IN  /\ mode = "link" =>
                     /\ Len(After(s)) = Len(flat)
                     /\ \A k \in 1..Len(flat) :
                           InAppAnchor(flat[k])
                           => /\ After(s)[k].t = "a"
                              /\ After(s)[k].text = flat[k].text
                              /\ After(s)[k].src[1] = "/"
                /\ mode = "text" =>
                     /\ Len(After(s)) = Len(flat)
                     /\ \A k \in 1..Len(flat) :
                           InAppAnchor(flat[k])
                           => After(s)[k] =
                                 [t |-> "text", src |-> << >>, text |-> flat[k].text]
                /\ mode = "strip" =>
                     /\ Len(After(s)) = Cardinality(kept)
                     /\ \A k \in kept :
                           After(s)[Cardinality({j \in kept : j <= k})].t = flat[k].t
                /\ mode # "strip" =>
                     \A k \in 1..Len(flat) :
                        (flat[k].t = "a" /\ ~InApp(flat[k].src)) => After(s)[k] = flat[k]
                /\ mode # "link" =>
                     \A j \in 1..Len(After(s)) : ~InAppAnchor(After(s)[j])
      ]_vars

\* an export to docx in mode "text" whose fragment, two internal links as
\* the host renderer made it, is two texts after the link pass
C15_Witness ==
    \E s \in AllSlots :
       /\ Rendering(s)
       /\ tasks[s].format = "docx"
       /\ settings.linkStrippingBehaviour = "text"
       /\ Top(s).pc = "svgs"
       /\ Len(Top(s).spans) = 2
       /\ \A k \in 1..2 :
            /\ InAppAnchor(Top(s).spans[k])
            /\ Top(s).body[k] = [t |-> "text", src |-> << >>, text |-> <<"label">>]

\* the images of a page
ImagesOf(body) == {body[k] : k \in {j \in 1..Len(body) : body[j].t = "img"}}

\* C16 (as claimed): in the page an export has made, for every format and
\* mode, every image whose source was an in-app reference has an absolute
\* path as source (the images left are those of the web and data URLs).
C16_Claim ==
    \A s \in AllSlots :
       tasks[s].pc = "emit"
       => \A img \in ImagesOf(tasks[s].html.body) :
             img.src[1] \in {"/", "https:", "data:"}

\* C16 (amended): in the fragment an export to a format other than HTML has
\* made, in every mode, every image of the vault, in the note or in a note
\* it embeds, has the path of the image under the note's directory as source
\* (the images left are those of the web and data URLs).
C16_ImagesAbsoluteUnlessHtml ==
    \A s \in AllSlots :
       (tasks[s].pc = "emit" /\ tasks[s].format # "html")
       => \A img \in ImagesOf(tasks[s].html.body) :
             \/ img.src = <<"/", "vault", "/", "pic", ".", "png">>
             \/ img.src[1] \in {"https:", "data:"}

\* an export to docx has made its fragment from a note that holds an image
\* of the vault and embeds itself: the image of the note and the image of
\* the embedded copy both have the path as source
C16_Witness ==
    \E s \in AllSlots :
       /\ tasks[s].pc = "emit"
       /\ tasks[s].format = "docx"
       /\ Len(tasks[s].html.body) = 3
       /\ \A k \in 2..3 :
            /\ tasks[s].html.body[k].t = "img"
            /\ tasks[s].html.body[k].src = <<"/", "vault", "/", "pic", ".", "png">>

\* the fragment at span i of a call of render is what a recursive call of
\* render returned for the embed there
Embedded(f, i) ==
    /\ f.spans[i].t = "embed"
    /\ f.cells[i] # <<f.spans[i]>>
    /\ ~\E j \in 1..Len(f.parentFiles) :
           f.parentFiles[j] = Append(dirname(f.file), f.spans[i].src \o <<".md">>)

\* C17 (as claimed): the link pass of a document leaves the anchors of the
\* fragments that recursive calls returned for its embeds as those calls
\* made them: each is in the fragment after the pass, its reference
\* unchanged.
C17_Claim ==
    [][\A s \in AllSlots :
         LinkPassStep(s)
         => \A i \in 1..Len(Top(s).cells) :
               Embedded(Top(s), i)
               => \A k \in 1..Len(Top(s).cells[i]) :
                     Top(s).cells[i][k].t = "a"
                     => \E j \in 1..Len(After(s)) : After(s)[j] = Top(s).cells[i][k]
      ]_vars

\* the heads of pages among the elements of a fragment
Heads(elems) == {k \in 1..Len(elems) : elems[k].t = "doctype"}

\* C18: the page an export has made is a standalone document whose body
\* holds no second head, and no fragment that a call of render works on, with
\* what the calls for its embeds returned in it, holds a head: the wrapper is
\* applied once, by the top-level call.
C18_WrapperOnce ==
    \A s \in AllSlots :
       /\ tasks[s].pc = "emit"
          => (tasks[s].html.standalone /\ Heads(tasks[s].html.body) = {})
       /\ \A i \in 1..Len(tasks[s].stack) :
             /\ Heads(Flatten(tasks[s].stack[i].cells)) = {}
             /\ Heads(tasks[s].stack[i].body) = {}

\* the page of an export has been made, and in it is the link that an embed
\* of an ancestor became in a call of render for an embedded note B
C18_Witness ==
    \E s \in AllSlots :
       /\ tasks[s].pc = "emit"
       /\ tasks[s].html.standalone
       /\ \E k \in 1..Len(tasks[s].html.body) :
            /\ tasks[s].html.body[k].t = "a"
            /\ tasks[s].html.body[k].text = << >>
            /\ \E i \in 1..Len(tasks[s].html.body[k].src) :
                 tasks[s].html.body[k].src[i] = "B"

\* the text of a style holds the block of CSS variables
HasVariables(style) == \E i \in 1..Len(style) : style[i] \in {"vars-light", "vars-dark"}

\* C19: every diagram of a fragment that a call of render has finished (the
\* page of the export, and what the calls for embeds returned) has the
\* block of CSS variables in its style, whatever the CSS-injection setting.
C19_DiagramsStyled ==
    \A s \in AllSlots :
       /\ tasks[s].pc = "emit"
          => \A k \in 1..Len(tasks[s].html.body) :
                tasks[s].html.body[k].t = "svg" => HasVariables(tasks[s].html.body[k].text)
       /\ \A i \in 1..Len(tasks[s].stack) :
             \A j \in 1..Len(tasks[s].stack[i].cells) :
                Embedded(tasks[s].stack[i], j)
                => \A k \in 1..Len(tasks[s].stack[i].cells[j]) :
                      tasks[s].stack[i].cells[j][k].t = "svg"
                      => HasVariables(tasks[s].stack[i].cells[j][k].text)

\* with CSS injection set to 'none', an HTML page has been made that holds a
\* diagram with the variables in its style
C19_Witness ==
    \E s \in AllSlots :
       /\ tasks[s].pc = "emit"
       /\ settings.injectAppCSS = "none"
       /\ \E k \in 1..Len(tasks[s].html.body) :
            /\ tasks[s].html.body[k].t = "svg"
            /\ tasks[s].html.body[k].text = <<"diagram", "vars-light">>

\* C20 (as claimed): the step that the diagram loop takes at a diagram leaves
\* the call of render in the loop, past that diagram, with the diagram or
\* its PNG in place: a rasterization that fails neither ends nor stalls the
\* export.
C20_Claim ==
    [][\A s \in Slots :
         (/\ tasks[s].pc = "render"
          /\ tasks[s].stack # << >>
          /\ Top(s).pc = "svgs"
          /\ Top(s).idx <= Len(Top(s).body)
          /\ tasks'[s] # tasks[s])
         => /\ tasks'[s].pc = "render"
            /\ Len(tasks'[s].stack) = Len(tasks[s].stack)
            /\ tasks'[s].stack[Len(tasks[s].stack)].pc = "svgs"
            /\ tasks'[s].stack[Len(tasks[s].stack)].idx > Top(s).idx
            /\ tasks'[s].stack[Len(tasks[s].stack)].body[Top(s).idx].t \in {"svg", "img"}
      ]_vars

(***************************************************************************)
(* C21: for a target other than HTML no SVG element is left in a fragment  *)
(* whose post-processing has ended: every diagram the loop has passed is   *)
(* a raster image in the diagram's position, and the page that render      *)
(* returns holds no SVG; for HTML the diagrams the loop has passed are     *)
(* still SVG elements, in their positions.                                 *)
(***************************************************************************)
\* the fragment of f holds diagrams and images only, so that the anchor pass
\* and the embed loop have left every element in its position
DiagramsOnly(f) == \A k \in 1..Len(f.spans) : f.spans[k].t \in {"svg", "img"}

C21_DiagramsRasterized ==
    \A s \in AllSlots :
       /\ (tasks[s].pc = "emit" /\ tasks[s].format # "html")
             => \A k \in 1..Len(tasks[s].html.body) : tasks[s].html.body[k].t # "svg"
       /\ \A i \in 1..Len(tasks[s].stack) :
             LET f == tasks[s].stack[i]
             IN  f.pc = "svgs" =>
                   /\ tasks[s].format # "html"
                        => \A k \in 1..Len(f.body) : k < f.idx => f.body[k].t # "svg"
                   /\ DiagramsOnly(f) =>
                        /\ Len(f.body) = Len(f.spans)
                        /\ \A k \in 1..Len(f.body) :
                              (k < f.idx /\ f.spans[k].t = "svg") =>
                                 IF tasks[s].format = "html"
                                   THEN f.body[k].t = "svg"
                                   ELSE f.body[k] = Png

\* a page for the converter made from two diagrams: two raster images, one in
\* the place of each
C21_Witness ==
    \E s \in AllSlots :
       /\ tasks[s].pc = "emit"
       /\ tasks[s].format # "html"
       /\ tasks[s].html.body = <<Png, Png>>

(***************************************************************************)
(* C22: the page that the top-level call of render returns has a title:    *)
(* the title of the note's header when the header has one, and the file's  *)
(* name without directory and extension when the note has no header or a   *)
(* header without a title.                                                 *)
(***************************************************************************)
C22_TitleFromHeaderOrFile ==
    [][\A s \in AllSlots :
         PageStep(s) =>
            /\ tasks'[s].html.title # EmptyStr
            /\ tasks[s].seen["A"].header = "title"
                  => tasks'[s].html.title = <<"My title">>
            /\ tasks[s].seen["A"].header \in {"none", "notitle"}
                  => tasks'[s].html.title = <<"A">>
      ]_vars

\* the page of a note whose header names a title
C22_Witness ==
    \E s \in AllSlots :
       /\ tasks[s].pc = "emit"
       /\ tasks[s].html.standalone
       /\ tasks[s].html.title = <<"My title">>

(***************************************************************************)
(* C23 (as claimed): no export fails on the header of a note: whether the  *)
(* note has no header, an empty one, one that is not closed or one that is *)
(* not YAML, no export ends with the exception of the YAML parser or with  *)
(* a TypeError as its failure.                                             *)
(***************************************************************************)
C23_Claim ==
    \A s \in AllSlots :
       (tasks[s].pc = "done" /\ tasks[s].notice = "failure")
          => tasks[s].diag \notin {<<"YAMLParseError">>, <<"TypeError">>}

(***************************************************************************)
(* C24 (as claimed): the CSS of the page is made of the texts of its       *)
(* sources, in the order variables, theme, live styles, MathJax fonts,     *)
(* custom file, and of nothing else: a source whose condition does not     *)
(* hold (injection 'none', theme injection off, no MathJax marker in the   *)
(* fragment, no custom file configured) has no text in it, and the live    *)
(* styles and the MathJax fonts are in it when their condition holds.      *)
(***************************************************************************)
\* the source a piece of the CSS comes from, 0 for a text of no source
SourceOf(piece) ==
    CASE piece \in {"app-light", "app-dark"}             -> 1
      [] piece = "theme.css"                              -> 2
      [] piece \in {"app.css", "diagram", "vars-light", "vars-dark"} -> 3
      [] piece = "mathjax-fonts"                          -> 4
      [] piece \in {"custom-absolute", "custom-relative"} -> 5
      [] OTHER                                            -> 0

C24_Claim ==
    \A s \in AllSlots :
       tasks[s].pc = "emit" =>
          LET css == tasks[s].html.css
              From(n) == \E k \in 1..Len(css) : SourceOf(css[k]) = n
          IN  /\ ~From(0)
              /\ \A j, k \in 1..Len(css) : j < k => SourceOf(css[j]) <= SourceOf(css[k])
              /\ settings.injectAppCSS = "none" => (~From(1) /\ ~From(2) /\ ~From(3))
              /\ ~settings.injectThemeCSS => ~From(2)
              /\ settings.injectAppCSS # "none" => From(3)
              /\ From(4) <=> hasMathJax(tasks[s].html.body)
              /\ settings.customCSSFile = EmptyStr => ~From(5)

(***************************************************************************)
(* C25 (as claimed): with a custom CSS file configured, the page's custom  *)
(* CSS is what the absolute path holds when that can be read; else what    *)
(* the path under the vault holds when that can be read; else nothing,     *)
(* and the warning has been shown.                                         *)
(***************************************************************************)
\* the pieces of the CSS that come from the custom file
CustomPart(css) == SelectSeq(css, LAMBDA piece : SourceOf(piece) = 5)

C25_Claim ==
    \A s \in AllSlots :
       (tasks[s].pc = "emit" /\ settings.customCSSFile # EmptyStr) =>
          IF env.customAbsolute = "readable"
            THEN /\ CustomPart(tasks[s].html.css) = <<"custom-absolute">>
                 /\ tasks[s].warnings = << >>
          ELSE IF env.customRelative = "readable"
            THEN /\ CustomPart(tasks[s].html.css) = <<"custom-relative">>
                 /\ tasks[s].warnings = << >>
          ELSE /\ CustomPart(tasks[s].html.css) = << >>
               /\ tasks[s].warnings = <<"Failed to load custom Pandoc CSS file">>

(***************************************************************************)
(* C26: expanding an embed leaves the ancestor list of the embedding call  *)
(* as it was: no step changes the file or the ancestor list of a call that *)
(* stays in the chain, the call made for an embed gets the list of its     *)
(* caller extended by the caller's file, and an embed that a call has      *)
(* turned into a link names one of the call's ancestors, so that a note    *)
(* embedded twice by one parent is expanded both times.                    *)
(***************************************************************************)
C26_AncestorListKept ==
    [][\A s \in AllSlots :
         (tasks[s].pc = "render" /\ tasks'[s].pc = "render") =>
            LET old == tasks[s].stack
                new == tasks'[s].stack
            IN  /\ \A i \in 1..Len(old) :
                      i <= Len(new) =>
                         /\ new[i].file = old[i].file
                         /\ new[i].parentFiles = old[i].parentFiles
                /\ Len(new) = Len(old) + 1 =>
                      new[Len(new)].parentFiles =
                         Append(old[Len(old)].parentFiles, old[Len(old)].file)
                /\ \A i \in 1..Len(new) : \A k \in 1..Len(new[i].cells) :
                      (/\ new[i].spans[k].t = "embed"
                       /\ new[i].cells[k] = <<CycleLink(new[i].spans[k])>>)
                      => \E j \in 1..(i - 1) :
                            new[j].file = join(dirname(new[i].file),
                                               new[i].spans[k].src \o MdExt)
      ]_vars

\* note A embeds note B twice, and both embeds have been replaced by what B
\* holds, which is nothing
C26_Witness ==
    \E s \in AllSlots :
       /\ tasks[s].pc = "render"
       /\ Len(tasks[s].stack) = 1
       /\ Top(s).spans = <<Embed(<<"B">>), Embed(<<"B">>)>>
       /\ Top(s).cells = << << >>, << >> >>
       /\ Top(s).parentFiles = << >>

(***************************************************************************)
(* C27 (as claimed): no note is expanded inside its own expansion: in the  *)
(* chain of calls of render of an export no file occurs twice.             *)
(***************************************************************************)
C27_Claim ==
    \A s \in AllSlots :
       \A i, j \in 1..Len(tasks[s].stack) :
          i < j => tasks[s].stack[i].file # tasks[s].stack[j].file

(***************************************************************************)
(* C28 (as claimed): an export to a format other than HTML is reported as  *)
(* a success (with or without warnings) only if the converter process of   *)
(* that export wrote the destination file: a file that an earlier export   *)
(* left there does not make a success of a run that wrote nothing.         *)
(***************************************************************************)
C28_Claim ==
    \A s \in Slots :
       (/\ tasks[s].kind = "export"
        /\ tasks[s].pc = "done"
        /\ tasks[s].format # "html"
        /\ tasks[s].notice \in {"success", "warnings"})
       => calls[s].wrote # "none"

(***************************************************************************)
(* C29 (as claimed): calling the converter leaves the environment of the   *)
(* host process as it was: with a path of pdflatex configured, the PATH of *)
(* the process is, after any number of exports, what it was before the     *)
(* first.                                                                  *)
(***************************************************************************)
C29_Claim == env.PATH = HostPATH

(***************************************************************************)
(* C30 (as claimed): a call of the converter on an input file that does    *)
(* not exist is rejected with 'Input file does not exist' once the file    *)
(* has been looked at, and no converter process is spawned for it.         *)
(***************************************************************************)
C30_Claim ==
    \A s \in Slots :
       (calls[s].input = "missing" /\ calls[s].pc # "statIn") =>
          /\ calls[s].promise = "rejected"
          /\ calls[s].pc = "settled" => calls[s].rejection = InputMissing
          /\ calls[s].proc = "none"

====
